---------------------------- MODULE Spec2Model ----------------------------
(***************************************************************************)
(* A model of the BIP32 extended private key of wagyu                      *)
(* (src/bitcoin/src/extended_private_key.rs): master key from a seed,      *)
(* child key derivation (the per-call loop of derive), the 82-byte         *)
(* base58check serialization (fmt) and its parser (from_str).              *)
(*                                                                         *)
(* The cryptographic libraries the file calls are modelled at a reduced    *)
(* scale: secp256k1 is a cyclic group of prime order CurveOrder inside the *)
(* integers modulo FieldPrime, and HMAC-SHA512, hash160 and the double     *)
(* SHA-256 checksum are deterministic mixing functions of their input      *)
(* bytes.  Byte strings are sequences over 0..255 and keep the widths of   *)
(* the source (32-byte scalars and chain codes, 4-byte fingerprints, the   *)
(* 82-byte envelope); the depth is an 8-bit integer.                       *)
(***************************************************************************)
EXTENDS Integers, Sequences, FiniteSets, TLC

(***************************************************************************)
(* Bounds of the model.                                                    *)
(***************************************************************************)
\* Seeds are the one-byte strings <<0>> .. <<MaxSeedByte>>.
MaxSeedByte == 2
\* Derivation paths of every length up to MaxPathLen over ChildIndices.
MaxPathLen == 2
\* Long paths (one index repeated) have 255 .. 255 + MaxOverflow segments.
MaxOverflow == 1

(***************************************************************************)
(* Parameters of the reduced-scale libraries.                              *)
(***************************************************************************)
\* The order n of the group (secp256k1's n, scaled down).
CurveOrder == 13
\* The group lives in the integers modulo FieldPrime; Generator has order
\* CurveOrder there.
FieldPrime == 53
Generator == 10
\* Parameters of the mixing function standing for the hash functions.
MixMul == 33
MixInit == 34
MixMod == 32749
\* The left half of an HMAC output ranges over 0 .. LeftSpace - 1 (so that
\* 0 and values >= CurveOrder both occur), the right half over
\* 0 .. RightSpace - 1.
LeftSpace == 16
RightSpace == 4

(***************************************************************************)
(* Byte strings.                                                           *)
(***************************************************************************)
\* BigEndian::write_u32 and the big-endian byte arrays of scalars: the
\* len-byte big-endian representation of v (v is below 2^31, so only the
\* last four bytes can be non-zero).
BigEndian(v, len) ==
    [i \in 1..len |-> IF len - i > 3 THEN 0 ELSE (v \div (256 ^ (len - i))) % 256]

\* [0u8; len]
Zeros(len) == [i \in 1..len |-> 0]

\* &data[from..to] of Rust (0-based, to exclusive).
Slice(data, from, to) == SubSeq(data, from + 1, to)

RECURSIVE MixRange(_, _, _)
\* The map h |-> (.. ((h * MixMul + bytes[lo]) * MixMul + bytes[lo + 1]) ..
\* + bytes[hi]) modulo MixMod, as the pair <<a, c>> of h |-> a * h + c; the
\* range is split in halves to keep the evaluation shallow.
MixRange(bytes, lo, hi) ==
    IF lo > hi THEN <<1, 0>>
    ELSE IF lo = hi THEN <<MixMul, bytes[lo] % MixMod>>
    ELSE LET mid == (lo + hi) \div 2
             f == MixRange(bytes, lo, mid)
             g == MixRange(bytes, mid + 1, hi)
         IN  <<(g[1] * f[1]) % MixMod, (g[1] * f[2] + g[2]) % MixMod>>

\* The digest all hash functions of the model share: a deterministic
\* function of every byte of its input and of the input's length.
Digest(bytes) ==
    LET m == MixRange(bytes, 1, Len(bytes))
        h == (m[1] * ((MixInit + Len(bytes)) % MixMod) + m[2]) % MixMod
    IN  (h * h + h \div 7) % MixMod

(***************************************************************************)
(* Results and errors.                                                     *)
(***************************************************************************)
Ok(v) == [tag |-> "Ok", val |-> v]
Err(e) == [tag |-> "Err", err |-> e]
\* The call aborted (a Rust panic).
Panic == [tag |-> "Panic"]
IsOk(r) == r.tag = "Ok"
IsErr(r) == r.tag = "Err"

InvalidScalar == <<"InvalidScalar">>
MaximumChildDepthReached(d) == <<"MaximumChildDepthReached", d>>
InvalidByteLength(n) == <<"InvalidByteLength", n>>
InvalidVersionBytes(b) == <<"InvalidVersionBytes", b>>
InvalidChecksum(expected, found) == <<"InvalidChecksum", expected, found>>
InvalidBase58 == <<"InvalidBase58">>


(***************************************************************************)
(* Child indices and derivation paths (wagyu_model::ChildIndex and         *)
(* BitcoinDerivationPath): Normal(i) and Hardened(i) with 0 <= i < 2^31;   *)
(* the 32-bit form is i for Normal and i + 2^31 for Hardened.              *)
(***************************************************************************)
Normal(i) == [hardened |-> FALSE, n |-> i]
Hardened(i) == [hardened |-> TRUE, n |-> i]

\* BigEndian::write_u32(.., u32::from(index)): the four big-endian bytes of
\* the 32-bit form; the hardened bit is the high bit of the first byte.
IndexToBytes(index) ==
    LET b == BigEndian(index.n, 4)
    IN  [b EXCEPT ![1] = b[1] + (IF index.hardened THEN 128 ELSE 0)]

\* ChildIndex::from(read_u32::<BigEndian>()): the variant is restored by
\* testing the high bit.
IndexFromBytes(b) ==
    [hardened |-> b[1] >= 128,
     n |-> (((b[1] % 128) * 256 + b[2]) * 256 + b[3]) * 256 + b[4]]

(***************************************************************************)
(* The network/format registry of version bytes (collaborator tables).     *)
(***************************************************************************)
Networks == {"Mainnet", "Testnet"}
Formats == {"P2PKH", "P2SH_P2WPKH", "Bech32"}

\* The (network, format) pairs that have extended private key version
\* bytes: xprv and yprv on mainnet, tprv and uprv on testnet.
VersionTable ==
    {<<"Mainnet", "P2PKH", <<4, 136, 173, 228>>>>,
     <<"Mainnet", "P2SH_P2WPKH", <<4, 157, 120, 120>>>>,
     <<"Testnet", "P2PKH", <<4, 53, 131, 148>>>>,
     <<"Testnet", "P2SH_P2WPKH", <<4, 74, 78, 40>>>>}

\* N::to_extended_private_key_version_bytes(&format)
ToVersionBytes(network, format) ==
    LET rows == {r \in VersionTable : r[1] = network /\ r[2] = format}
    IN  IF rows = {} THEN Err(<<"UnsupportedFormat", format>>)
        ELSE Ok((CHOOSE r \in rows : TRUE)[3])

\* N::from_extended_private_key_version_bytes(&data[0..4])
NetworkFromVersionBytes(network, bytes) ==
    IF \E r \in VersionTable : r[1] = network /\ r[3] = bytes
    THEN Ok(network) ELSE Err(InvalidVersionBytes(bytes))

\* Format::from_extended_private_key_version_bytes(&data[0..4])
FormatFromVersionBytes(bytes) ==
    LET rows == {r \in VersionTable : r[3] = bytes}
    IN  IF rows = {} THEN Err(InvalidVersionBytes(bytes))
        ELSE Ok((CHOOSE r \in rows : TRUE)[2])

(***************************************************************************)
(* secp256k1 at reduced scale.                                             *)
(***************************************************************************)
\* The big-endian integer a byte string holds when it is below 256, and 256
\* (which is >= CurveOrder) for every larger one.
Parse256(bytes) ==
    IF \E i \in 1..(Len(bytes) - 1) : bytes[i] # 0 THEN 256
    ELSE bytes[Len(bytes)]

\* SecretKey::from_slice: the scalar, unless it is 0 or >= n.
SecretKeyFromSlice(bytes) ==
    LET v == Parse256(bytes)
    IN  IF Len(bytes) = 32 /\ v # 0 /\ v < CurveOrder THEN Ok(v)
        ELSE Err(InvalidScalar)

\* &secret_key[..]: the 32 big-endian bytes of a secret key.
SecretKeyBytes(k) == BigEndian(k, 32)

\* SecretKey::add_assign(&other[..]): addition modulo n, an error when the
\* tweak is not below n or the sum is 0.
AddAssign(k, other) ==
    LET t == Parse256(other)
    IN  IF t >= CurveOrder \/ (k + t) % CurveOrder = 0 THEN Err(InvalidScalar)
        ELSE Ok((k + t) % CurveOrder)

RECURSIVE PowMod(_, _)
\* Generator^k modulo FieldPrime: the point k*G.
PowMod(g, k) == IF k = 0 THEN 1 ELSE (g * PowMod(g, k - 1)) % FieldPrime

\* PublicKey::from_secret_key(..).serialize(): the 33-byte compressed point.
PublicKeySerialize(k) ==
    LET pt == PowMod(Generator, k)
    IN  <<2 + (pt % 2)>> \o BigEndian(pt, 32)

(***************************************************************************)
(* Hash primitives.                                                        *)
(***************************************************************************)
\* HmacSha512::new_varkey(key), input(data), result().code(): 64 bytes.
HmacSha512(key, data) ==
    LET h == Digest(<<Len(key)>> \o key \o data)
    IN  BigEndian(h % LeftSpace, 32) \o BigEndian((h \div LeftSpace) % RightSpace, 32)

\* wagu_model::crypto::hash160: 20 bytes.
Hash160(bytes) == BigEndian(Digest(<<160>> \o bytes), 4) \o Zeros(16)

\* wagu_model::crypto::checksum: double SHA-256, 32 bytes.
Checksum(bytes) == BigEndian(Digest(<<32>> \o bytes), 4) \o Zeros(28)

\* The base58 crate at reduced scale.  A text is the sequence of its
\* characters, each denoted by its position in the alphabet (Radix stands
\* for a character outside it); every byte is written as two digits, where
\* the crate writes the whole byte string as one number.
Radix == 58
ToBase58(bytes) ==
    [i \in 1..(2 * Len(bytes)) |->
        IF i % 2 = 1 THEN bytes[(i + 1) \div 2] \div Radix
        ELSE bytes[i \div 2] % Radix]

FromBase58(s) ==
    LET byte(i) == s[2 * i - 1] * Radix + s[2 * i]
    IN  IF \/ \E i \in 1..Len(s) : s[i] >= Radix
           \/ Len(s) % 2 = 1
           \/ \E i \in 1..(Len(s) \div 2) : byte(i) > 255
        THEN Err(InvalidBase58)
        ELSE Ok([i \in 1..(Len(s) \div 2) |-> byte(i)])

(***************************************************************************)
(* BitcoinExtendedPrivateKey.                                              *)
(***************************************************************************)
\* b"Bitcoin seed"
BitcoinSeed == <<66, 105, 116, 99, 111, 105, 110, 32, 115, 101, 101, 100>>

\* The largest value of the 8-bit depth.
U8Max == 255

\* new_master with the two halves of the HMAC output taken the wrong way round.
new_master_HalvesSwapped(seed, format) ==
    LET hmac == HmacSha512(BitcoinSeed, seed)
        secret_key == SecretKeyFromSlice(Slice(hmac, 32, 64))
    IN  IF IsErr(secret_key) THEN secret_key
        ELSE Ok([format |-> format,
                 depth |-> 0,
                 parent_fingerprint |-> Zeros(4),
                 child_index |-> Normal(0),
                 chain_code |-> Slice(hmac, 0, 32),
                 private_key |-> secret_key.val])

\* fn new_master(seed, format)
new_master(seed, format) ==
    LET hmac == HmacSha512(BitcoinSeed, seed)
        secret_key == SecretKeyFromSlice(Slice(hmac, 0, 32))
    IN  IF IsErr(secret_key) THEN secret_key
        ELSE Ok([format |-> format,
                 depth |-> 0,
                 parent_fingerprint |-> Zeros(4),
                 child_index |-> Normal(0),
                 chain_code |-> Slice(hmac, 32, 64),
                 private_key |-> secret_key.val])

\* The depth test with the bound off by one.
MaximumDepthCheck_OffByOne(self) == self.depth = 254

\* The test made once at the start of derive: self.depth == 255.
MaximumDepthCheck(self) == self.depth = 255

\* The HMAC input of one step: serP(point(kpar)) || ser32(i) for a normal
\* index, 0x00 || ser256(kpar) || ser32(i) for a hardened one.
HmacInput(key, index) ==
    (IF index.hardened THEN <<0>> \o SecretKeyBytes(key.private_key)
     ELSE PublicKeySerialize(key.private_key)) \o IndexToBytes(index)

\* The child scalar of one step: SecretKey::from_slice(&hmac[0..32])?
\* followed by add_assign(parent scalar)?.
ChildScalar(key, hmac) ==
    LET left == SecretKeyFromSlice(Slice(hmac, 0, 32))
    IN  IF IsErr(left) THEN left
        ELSE AddAssign(left.val, SecretKeyBytes(key.private_key))

\* The fingerprint taken over the secret scalar instead of the public key.
Fingerprint_OfSecretKey(key) == Slice(Hash160(SecretKeyBytes(key.private_key)), 0, 4)

\* parent_fingerprint.copy_from_slice(&hash160(public_key)[0..4])
Fingerprint(key) == Slice(Hash160(PublicKeySerialize(key.private_key)), 0, 4)

\* extended_private_key.depth + 1 on the 8-bit depth: with overflow checks
\* (a debug build) the addition aborts, without them it wraps around.
DepthPlusOne(depth, overflow_checks) ==
    IF depth + 1 > U8Max
    THEN (IF overflow_checks THEN Panic ELSE Ok((depth + 1) % (U8Max + 1)))
    ELSE Ok(depth + 1)

\* The loop body with the retry BIP32 recommends: a rejected index i is
\* replaced by i + 1.
ChildKey_Retry(key, index, overflow_checks) ==
    LET Try(i) ==
            LET hmac == HmacSha512(key.chain_code, HmacInput(key, i))
                private_key == ChildScalar(key, hmac)
                depth == DepthPlusOne(key.depth, overflow_checks)
            IN  IF IsErr(private_key) THEN private_key
                ELSE IF ~IsOk(depth) THEN depth
                ELSE Ok([format |-> key.format,
                         depth |-> depth.val,
                         parent_fingerprint |-> Fingerprint(key),
                         child_index |-> i,
                         chain_code |-> Slice(hmac, 32, 64),
                         private_key |-> private_key.val])
        next == [index EXCEPT !.n = index.n + 1]
    IN  IF IsErr(Try(index)) THEN Try(next) ELSE Try(index)

\* The body of the loop of derive (one CKDpriv step).
ChildKey(key, index, overflow_checks) ==
    LET hmac == HmacSha512(key.chain_code, HmacInput(key, index))
        private_key == ChildScalar(key, hmac)
        depth == DepthPlusOne(key.depth, overflow_checks)
    IN  IF IsErr(private_key) THEN private_key
        ELSE IF ~IsOk(depth) THEN depth
        ELSE Ok([format |-> key.format,
                 depth |-> depth.val,
                 parent_fingerprint |-> Fingerprint(key),
                 child_index |-> index,
                 chain_code |-> Slice(hmac, 32, 64),
                 private_key |-> private_key.val])

RECURSIVE DeriveLoop(_, _, _, _, _)
\* The loop of derive over the segments lo..hi of the path, starting from
\* key: the steps in order, up to the first one that does not return a key.
\* The range is split in halves to keep the evaluation shallow.
DeriveLoop(key, path, lo, hi, overflow_checks) ==
    IF lo > hi THEN Ok(key)
    ELSE IF lo = hi THEN ChildKey(key, path[lo], overflow_checks)
    ELSE LET mid == (lo + hi) \div 2
             first == DeriveLoop(key, path, lo, mid, overflow_checks)
         IN  IF IsOk(first)
             THEN DeriveLoop(first.val, path, mid + 1, hi, overflow_checks)
             ELSE first

\* fn derive(&self, path), as a function of its arguments.
derive(self, path, overflow_checks) ==
    IF MaximumDepthCheck(self) THEN Err(MaximumChildDepthReached(self.depth))
    ELSE DeriveLoop(self, path, 1, Len(path), overflow_checks)

\* The payload with the child index written before the parent fingerprint.
Payload_FieldsSwapped(key, version) ==
    version
    \o <<key.depth>>
    \o IndexToBytes(key.child_index)
    \o key.parent_fingerprint
    \o key.chain_code
    \o <<0>>
    \o SecretKeyBytes(key.private_key)

\* The first 78 bytes fmt writes: version(4) || depth(1) ||
\* parent_fingerprint(4) || child_index(4) || chain_code(32) || 0x00 ||
\* secret_key(32).
Payload(key, version) ==
    version
    \o <<key.depth>>
    \o key.parent_fingerprint
    \o IndexToBytes(key.child_index)
    \o key.chain_code
    \o <<0>>
    \o SecretKeyBytes(key.private_key)

\* impl Display: the 82-byte envelope, base58-encoded; a formatting error
\* when the format has no version bytes on the network.
fmt(key, network) ==
    LET version == ToVersionBytes(network, key.format)
        result == Payload(key, version.val)
    IN  IF IsErr(version) THEN Err(<<"fmt::Error">>)
        ELSE Ok(ToBase58(result \o Slice(Checksum(result), 0, 4)))

\* from_str with the checksum compared before the version bytes and the
\* scalar are looked at.
from_str_ChecksumFirst(s, network) ==
    LET decoded == FromBase58(s)
        data == decoded.val
        net == NetworkFromVersionBytes(network, Slice(data, 0, 4))
        format == FormatFromVersionBytes(Slice(data, 0, 4))
        private_key == SecretKeyFromSlice(Slice(data, 46, 78))
        expected == Slice(data, 78, 82)
        checksum == Slice(Checksum(Slice(data, 0, 78)), 0, 4)
    IN  IF IsErr(decoded) THEN decoded
        ELSE IF Len(data) # 82 THEN Err(InvalidByteLength(Len(data)))
        ELSE IF expected # checksum
             THEN Err(InvalidChecksum(ToBase58(expected), ToBase58(checksum)))
        ELSE IF IsErr(net) THEN net
        ELSE IF IsErr(format) THEN format
        ELSE IF IsErr(private_key) THEN private_key
        ELSE Ok([format |-> format.val,
                 depth |-> data[5],
                 parent_fingerprint |-> Slice(data, 5, 9),
                 child_index |-> IndexFromBytes(Slice(data, 9, 13)),
                 chain_code |-> Slice(data, 13, 45),
                 private_key |-> private_key.val])

\* from_str without the comparison of the checksum.
from_str_ChecksumSkipped(s, network) ==
    LET decoded == FromBase58(s)
        data == decoded.val
        net == NetworkFromVersionBytes(network, Slice(data, 0, 4))
        format == FormatFromVersionBytes(Slice(data, 0, 4))
        private_key == SecretKeyFromSlice(Slice(data, 46, 78))
    IN  IF IsErr(decoded) THEN decoded
        ELSE IF Len(data) # 82 THEN Err(InvalidByteLength(Len(data)))
        ELSE IF IsErr(net) THEN net
        ELSE IF IsErr(format) THEN format
        ELSE IF IsErr(private_key) THEN private_key
        ELSE Ok([format |-> format.val,
                 depth |-> data[5],
                 parent_fingerprint |-> Slice(data, 5, 9),
                 child_index |-> IndexFromBytes(Slice(data, 9, 13)),
                 chain_code |-> Slice(data, 13, 45),
                 private_key |-> private_key.val])

\* impl FromStr
from_str(s, network) ==
    LET decoded == FromBase58(s)
        data == decoded.val
        net == NetworkFromVersionBytes(network, Slice(data, 0, 4))
        format == FormatFromVersionBytes(Slice(data, 0, 4))
        private_key == SecretKeyFromSlice(Slice(data, 46, 78))
        expected == Slice(data, 78, 82)
        checksum == Slice(Checksum(Slice(data, 0, 78)), 0, 4)
    IN  IF IsErr(decoded) THEN decoded
        ELSE IF Len(data) # 82 THEN Err(InvalidByteLength(Len(data)))
        ELSE IF IsErr(net) THEN net
        ELSE IF IsErr(format) THEN format
        ELSE IF IsErr(private_key) THEN private_key
        ELSE IF expected # checksum
             THEN Err(InvalidChecksum(ToBase58(expected), ToBase58(checksum)))
        ELSE Ok([format |-> format.val,
                 depth |-> data[5],
                 parent_fingerprint |-> Slice(data, 5, 9),
                 child_index |-> IndexFromBytes(Slice(data, 9, 13)),
                 chain_code |-> Slice(data, 13, 45),
                 private_key |-> private_key.val])

(***************************************************************************)
(* The Monero wordlist (crate::wordlist::MoneroWordlist) at reduced scale:  *)
(* WordlistLength words of three letters, told apart by their first        *)
(* PrefixLength letters.  A character is a number: Space, or a letter      *)
(* 1..Letters.                                                             *)
(***************************************************************************)
WordlistLength == 41
PrefixLength == 2
Letters == 7
Space == 0

\* W::get(index)
WordlistGet(index) ==
    IF index < WordlistLength
    THEN Ok(<<1 + (index \div Letters), 1 + (index % Letters), 1 + (index % 3)>>)
    ELSE Err(<<"InvalidIndex", index>>)

\* W::to_trimmed(word): the first PrefixLength characters of a longer word,
\* the word itself otherwise.
ToTrimmed(word) ==
    IF Len(word) > PrefixLength THEN SubSeq(word, 1, PrefixLength) ELSE word

\* W::get_index_trimmed(trimmed): the index of the word with that prefix.
GetIndexTrimmed(trimmed) ==
    LET found == {i \in 0..(WordlistLength - 1) :
                     ToTrimmed(WordlistGet(i).val) = trimmed}
    IN  IF found = {} THEN Err(<<"InvalidWord", trimmed>>)
        ELSE Ok(CHOOSE i \in found : TRUE)

(***************************************************************************)
(* Strings of words.                                                       *)
(***************************************************************************)
RECURSIVE SplitRange(_, _, _)
\* The pieces of s[lo..hi] between its spaces, empty ones included.  The
\* range is split in halves: the last piece of the first half and the first
\* piece of the second are one piece.
SplitRange(s, lo, hi) ==
    IF lo > hi THEN <<<<>>>>
    ELSE IF lo = hi THEN (IF s[lo] = Space THEN <<<<>>, <<>>>> ELSE <<<<s[lo]>>>>)
    ELSE LET mid == (lo + hi) \div 2
             left == SplitRange(s, lo, mid)
             right == SplitRange(s, mid + 1, hi)
         IN  SubSeq(left, 1, Len(left) - 1)
                 \o <<left[Len(left)] \o right[1]>>
                 \o SubSeq(right, 2, Len(right))

\* phrase.split(" "): a string without a space is one piece.
Split(s) == SplitRange(s, 1, Len(s))

RECURSIVE JoinRange(_, _, _, _)
\* words[lo..hi] written one after the other with sep between them.
JoinRange(words, sep, lo, hi) ==
    IF lo > hi THEN <<>>
    ELSE IF lo = hi THEN words[lo]
    ELSE LET mid == (lo + hi) \div 2
         IN  JoinRange(words, sep, lo, mid) \o sep \o JoinRange(words, sep, mid + 1, hi)

\* phrase.join(" ")
Join(words) == JoinRange(words, <<Space>>, 1, Len(words))

\* phrase_trimmed.concat()
Concat(words) == JoinRange(words, <<>>, 1, Len(words))

\* crc32::Digest::new(crc32::IEEE), write, sum32, at reduced scale.
Crc32(bytes) == Digest(<<3>> \o bytes)

(***************************************************************************)
(* curve25519_dalek::scalar::Scalar at reduced scale: the seed has         *)
(* SeedLength bytes, eight groups of ChunkBytes bytes, and the group order *)
(* l is 2^124 + (the low 15 bytes of Ed25519's l).                         *)
(***************************************************************************)
ChunkBytes == 2
SeedLength == 16
ChunkModulus == 65536
OrderBytes ==
    <<237, 211, 245, 92, 26, 99, 18, 88, 214, 156, 247, 162, 222, 249, 222, 16>>

\* a < b for little-endian byte strings of one length.
LessLE(a, b) ==
    LET differ == {i \in 1..Len(a) : a[i] # b[i]}
    IN  differ # {} /\ LET top == CHOOSE i \in differ : \A j \in differ : j <= i
                       IN  a[top] < b[top]

\* a - b for little-endian byte strings of one length, a >= b.
SubLE(a, b) ==
    [i \in 1..Len(a) |->
        LET borrow == IF LessLE(SubSeq(a, 1, i - 1), SubSeq(b, 1, i - 1)) THEN 1 ELSE 0
        IN  (256 + a[i] - b[i] - borrow) % 256]

RECURSIVE ReduceModOrder(_)
ReduceModOrder(bytes) ==
    IF LessLE(bytes, OrderBytes) THEN bytes
    ELSE ReduceModOrder(SubLE(bytes, OrderBytes))

\* Scalar::from_bytes_mod_order(seed).to_bytes()
ScalarFromBytesModOrder(seed) == ReduceModOrder(seed)

\* u32::from_le_bytes and u32::to_le_bytes on a group of ChunkBytes bytes.
FromLeBytes(chunk) == chunk[1] + 256 * chunk[2]
ToLeBytes(x) == <<x % 256, (x \div 256) % 256>>

(***************************************************************************)
(* MoneroMnemonic.                                                         *)
(***************************************************************************)
MissingWord == <<"MissingWord">>
MissingChecksumWord == <<"MissingChecksumWord">>
InvalidDecoding == <<"InvalidDecoding">>
InvalidChecksumWord(expected, found) == <<"InvalidChecksumWord", expected, found>>

\* fn checksum_word(phrase): the word at index crc32 % phrase.len(); the
\* remainder by zero of an empty phrase aborts.
checksum_word(phrase) ==
    LET phrase_trimmed == [i \in 1..Len(phrase) |-> ToTrimmed(phrase[i])]
    IN  IF Len(phrase) = 0 THEN Panic
        ELSE Ok(phrase[(Crc32(Concat(phrase_trimmed)) % Len(phrase)) + 1])

\* The three words of one group with the second and third index not offset
\* by the index before it.
ChunkWords_NoOffset(index) ==
    LET length == WordlistLength
        w1 == index % length
        w2 == (index \div length) % length
        w3 == ((index \div length) \div length) % length
    IN  <<WordlistGet(w1), WordlistGet(w2), WordlistGet(w3)>>

\* The three words to_phrase makes of one group.
ChunkWords(index) ==
    LET length == WordlistLength
        w1 == index % length
        w2 == ((index \div length) + w1) % length
        w3 == (((index \div length) \div length) + w2) % length
    IN  <<WordlistGet(w1), WordlistGet(w2), WordlistGet(w3)>>

\* fn to_phrase(&self)
to_phrase(self) ==
    LET seed == ScalarFromBytesModOrder(self.seed)
        inputs == [k \in 1..(Len(seed) \div ChunkBytes) |->
                      FromLeBytes(SubSeq(seed, ChunkBytes * (k - 1) + 1, ChunkBytes * k))]
        got == [i \in 1..(3 * Len(inputs)) |->
                   ChunkWords(inputs[(i + 2) \div 3])[((i - 1) % 3) + 1]]
        failed == {i \in 1..Len(got) : IsErr(got[i])}
        phrase == [i \in 1..Len(got) |-> got[i].val]
        checksum == checksum_word(phrase)
    IN  IF failed # {} THEN got[CHOOSE i \in failed : \A j \in failed : i <= j]
        ELSE IF ~IsOk(checksum) THEN checksum
        ELSE Ok(Join(Append(phrase, checksum.val)))

\* The test of the number of words with the two errors taken for each other.
WordCountCheck_Swapped(phrase) ==
    IF Len(phrase) % 3 = 2 THEN Err(MissingChecksumWord)
    ELSE IF Len(phrase) % 3 = 0 THEN Err(MissingWord)
    ELSE Ok(phrase)

\* from_phrase: the test of the number of words.
WordCountCheck(phrase) ==
    IF Len(phrase) % 3 = 2 THEN Err(MissingWord)
    ELSE IF Len(phrase) % 3 = 0 THEN Err(MissingChecksumWord)
    ELSE Ok(phrase)

\* The loop body writing the bytes of x in big-endian order.
DecodeChunk_BigEndian(chunk) ==
    LET w1 == GetIndexTrimmed(ToTrimmed(chunk[1]))
        w2 == GetIndexTrimmed(ToTrimmed(chunk[2]))
        w3 == GetIndexTrimmed(ToTrimmed(chunk[3]))
        n == WordlistLength
        x == w1.val + n * (((n - w1.val) + w2.val) % n)
                + n * n * (((n - w2.val) + w3.val) % n)
        le == ToLeBytes(x % ChunkModulus)
    IN  IF IsErr(w1) THEN w1
        ELSE IF IsErr(w2) THEN w2
        ELSE IF IsErr(w3) THEN w3
        ELSE IF x % n # w1.val THEN Err(InvalidDecoding)
        ELSE Ok([i \in 1..Len(le) |-> le[Len(le) + 1 - i]])

\* from_phrase: the body of the loop, the bytes one chunk of three words
\* adds to the buffer.  x is computed in usize; x as u32 keeps its low bits.
DecodeChunk(chunk) ==
    LET w1 == GetIndexTrimmed(ToTrimmed(chunk[1]))
        w2 == GetIndexTrimmed(ToTrimmed(chunk[2]))
        w3 == GetIndexTrimmed(ToTrimmed(chunk[3]))
        n == WordlistLength
        x == w1.val + n * (((n - w1.val) + w2.val) % n)
                + n * n * (((n - w2.val) + w3.val) % n)
    IN  IF IsErr(w1) THEN w1
        ELSE IF IsErr(w2) THEN w2
        ELSE IF IsErr(w3) THEN w3
        ELSE IF x % n # w1.val THEN Err(InvalidDecoding)
        ELSE Ok(ToLeBytes(x % ChunkModulus))

\* The comparison of the checksum words reporting the two prefixes in the
\* other order.
VerifyChecksum_Swapped(phrase, checksum) ==
    LET expected_checksum == checksum_word(phrase)
        expected == ToTrimmed(expected_checksum.val)
        found == ToTrimmed(checksum)
    IN  IF ~IsOk(expected_checksum) THEN expected_checksum
        ELSE IF expected # found THEN Err(InvalidChecksumWord(found, expected))
        ELSE Ok(checksum)

\* from_phrase: the comparison of the checksum word with the one computed
\* from the other words.
VerifyChecksum(phrase, checksum) ==
    LET expected_checksum == checksum_word(phrase)
        expected == ToTrimmed(expected_checksum.val)
        found == ToTrimmed(checksum)
    IN  IF ~IsOk(expected_checksum) THEN expected_checksum
        ELSE IF expected # found THEN Err(InvalidChecksumWord(expected, found))
        ELSE Ok(checksum)

\* seed.copy_from_slice(&buffer): aborts unless the lengths are equal.
CopyFromSlice(length, buffer) ==
    IF Len(buffer) = length THEN Ok(buffer) ELSE Panic

\* fn from_phrase(phrase: &str)
from_phrase(s) ==
    LET words == Split(s)
        counted == WordCountCheck(words)
        checksum == words[Len(words)]
        phrase == SubSeq(words, 1, Len(words) - 1)
        chunks == [k \in 1..(Len(phrase) \div 3) |->
                      DecodeChunk(SubSeq(phrase, 3 * k - 2, 3 * k))]
        failed == {k \in 1..Len(chunks) : IsErr(chunks[k])}
        buffer == [i \in 1..(ChunkBytes * Len(chunks)) |->
                      chunks[((i - 1) \div ChunkBytes) + 1].val[((i - 1) % ChunkBytes) + 1]]
        verified == VerifyChecksum(phrase, checksum)
        seed == CopyFromSlice(SeedLength, buffer)
    IN  IF IsErr(counted) THEN counted
        ELSE IF failed # {} THEN chunks[CHOOSE k \in failed : \A j \in failed : k <= j]
        ELSE IF ~IsOk(verified) THEN verified
        ELSE IF ~IsOk(seed) THEN seed
        ELSE Ok([seed |-> seed.val])

\* What a function that returns no Result returned.
Returned(v) == [tag |-> "Returned", val |-> v]

\* pub fn verify_phrase(phrase: &str) -> bool
verify_phrase(s) ==
    LET mnemonic == from_phrase(s)
    IN  IF mnemonic = Panic THEN Panic ELSE Returned(IsOk(mnemonic))

(***************************************************************************)
(* Ethereum: the private key (src/ethereum/src/private_key.rs).  A string  *)
(* is the sequence of the codes of its characters.                         *)
(***************************************************************************)
\* "0123456789abcdef" and "0123456789ABCDEF"
HexLower == <<48, 49, 50, 51, 52, 53, 54, 55, 56, 57, 97, 98, 99, 100, 101, 102>>
HexUpper == <<48, 49, 50, 51, 52, 53, 54, 55, 56, 57, 65, 66, 67, 68, 69, 70>>

OddLength == <<"OddLength">>
InvalidHexCharacter(c, index) == <<"InvalidHexCharacter", c, index>>

\* The value of a hex digit of either case, -1 for any other character.
HexVal(c) ==
    IF \E v \in 1..16 : HexLower[v] = c THEN (CHOOSE v \in 1..16 : HexLower[v] = c) - 1
    ELSE IF \E v \in 1..16 : HexUpper[v] = c THEN (CHOOSE v \in 1..16 : HexUpper[v] = c) - 1
    ELSE -1

\* hex::decode: two digits of either case per byte; an odd number of
\* characters and a character that is no hex digit are errors.
HexDecode(s) ==
    LET bad == {i \in 1..Len(s) : HexVal(s[i]) < 0}
    IN  IF Len(s) % 2 = 1 THEN Err(OddLength)
        ELSE IF bad # {}
        THEN LET first == CHOOSE i \in bad : \A j \in bad : i <= j
             IN  Err(InvalidHexCharacter(s[first], first - 1))
        ELSE Ok([k \in 1..(Len(s) \div 2) |->
                    16 * HexVal(s[2 * k - 1]) + HexVal(s[2 * k])])

\* hex::encode: two lowercase digits per byte.
HexEncode(bytes) ==
    [i \in 1..(2 * Len(bytes)) |->
        LET byte == bytes[(i + 1) \div 2]
        IN  HexLower[(IF i % 2 = 1 THEN byte \div 16 ELSE byte % 16) + 1]]

\* fn secret_key_to_wif(secret_key)
secret_key_to_wif(secret_key) == HexEncode(SecretKeyBytes(secret_key))

\* pub fn from_secret_key(secret_key)
from_secret_key(secret_key) ==
    [secret_key |-> secret_key, wif |-> secret_key_to_wif(secret_key)]

\* pub fn from_wif(wif): both library calls are unwrapped with expect, so
\* their errors abort the call; the string is kept as it was given.
from_wif(wif) ==
    LET decoded == HexDecode(wif)
    IN  IF ~IsOk(decoded) THEN Panic
        ELSE LET secret_key == SecretKeyFromSlice(decoded.val)
             IN  IF ~IsOk(secret_key) THEN Panic
                 ELSE Ok([secret_key |-> secret_key.val, wif |-> wif])

\* fn random_secret_key(): the key of the 32 bytes the generator filled in;
\* bytes that are no secret key abort the call.
random_secret_key(random) ==
    LET secret_key == SecretKeyFromSlice(random)
    IN  IF ~IsOk(secret_key) THEN Panic ELSE Ok(secret_key.val)

\* fn build(), which new and default call.
build(random) ==
    LET secret_key == random_secret_key(random)
    IN  IF ~IsOk(secret_key) THEN Panic
        ELSE Ok([secret_key |-> secret_key.val,
                 wif |-> secret_key_to_wif(secret_key.val)])

\* impl FromStr for EthereumPrivateKey
EthereumFromStr(s) == from_wif(s)

\* impl Display for EthereumPrivateKey
EthereumFmt(self) == Ok(self.wif)

(***************************************************************************)
(* The inputs of the model.                                                *)
(***************************************************************************)
Seeds == {<<b>> : b \in 0..MaxSeedByte}

ChildIndices == {Normal(0), Normal(1), Hardened(0), Hardened(1)}

ShortPaths == UNION {[1..n -> ChildIndices] : n \in 0..MaxPathLen}

LongPaths ==
    {[i \in 1..n |-> index] : index \in ChildIndices, n \in U8Max..(U8Max + MaxOverflow)}

\* The texts given to from_str: the base58 encodings of 82-byte strings laid
\* out as an envelope (with a right or a wrong checksum, a zero or a
\* non-zero byte at offset 45, known and unknown version bytes, valid and
\* invalid scalars), of strings one byte shorter and longer, and a text that
\* is not base58.
InputPayloads ==
    {version \o <<depth>> \o fingerprint \o index \o BigEndian(chain, 32)
        \o <<pad>> \o BigEndian(scalar, 32) :
        version \in {r[3] : r \in VersionTable} \cup {<<4, 136, 173, 227>>},
        depth \in {0, U8Max - 1, U8Max},
        fingerprint \in {Zeros(4), <<0, 0, 0, 5>>},
        index \in {IndexToBytes(Normal(0)), IndexToBytes(Hardened(1))},
        chain \in {1},
        pad \in {0, 1},
        scalar \in {0, 5, CurveOrder}}

InputTexts ==
    {ToBase58(p \o Slice(Checksum(p), 0, 4)) : p \in InputPayloads}
    \cup {ToBase58(p \o Zeros(4)) : p \in InputPayloads}
    \cup {ToBase58(Slice(p, 0, 77) \o Slice(Checksum(p), 0, 4)) : p \in InputPayloads}
    \cup {ToBase58(p \o Slice(Checksum(p), 0, 4) \o <<0>>) : p \in InputPayloads}
    \cup {<<Radix>>}

\* The keys whose printed text is corrupted before it is parsed: the master
\* keys and their children.
SerializedKeys ==
    LET paths == {<<>>} \cup {<<index>> : index \in ChildIndices}
        keys == {LET master == new_master(seed, format)
                 IN  IF IsOk(master) THEN derive(master.val, p, FALSE) ELSE master :
                     seed \in Seeds, format \in Formats, p \in paths}
    IN  {k.val : k \in {r \in keys : IsOk(r)}}

\* The changes made to one byte: the next value, and the top bit flipped.
ByteDeltas == {1, 128}

\* bytes with the byte at offset at (from 0) changed by delta.
CorruptByte(bytes, at, delta) ==
    [bytes EXCEPT ![at + 1] = (bytes[at + 1] + delta) % 256]

(***************************************************************************)
(* The state: a caller that builds a key, derives from it, and prints and  *)
(* re-parses the key it got.                                               *)
(***************************************************************************)
VARIABLES
    overflow_checks,        \* whether the build checks integer overflow
    network,                \* the type parameter N of the key type
    pc,                     \* "idle", "loop", "done", "shown", "reparsed"
    op,                     \* the operation called last
    arg,                    \* the arguments of new and new_master, the text of from_str
    self,                   \* derive: the key derive was called on
    path,                   \* derive: its path argument
    pos,                    \* derive: the segment the loop is at; 0 outside the loop
    extended_private_key,   \* derive: the local variable of the loop
    result,                 \* what the operation returned
    text,                   \* what fmt wrote for the returned key
    reparsed                \* what from_str returned for that text

vars == <<overflow_checks, network, pc, op, arg, self, path, pos,
          extended_private_key, result, text, reparsed>>

None == [tag |-> "None"]

Init ==
    /\ overflow_checks \in BOOLEAN
    /\ network \in Networks
    /\ pc = "idle"
    /\ op = "none"
    /\ arg = None
    /\ self = None
    /\ path = <<>>
    /\ pos = 0
    /\ extended_private_key = None
    /\ result = None
    /\ text = None
    /\ reparsed = None

\* new_master(seed, format)
CallNewMaster ==
    /\ pc = "idle"
    /\ \E seed \in Seeds, format \in Formats :
          /\ arg' = [seed |-> seed, format |-> format]
          /\ result' = new_master(seed, format)
    /\ op' = "new_master"
    /\ pc' = "done"
    /\ UNCHANGED <<overflow_checks, network, self, path, pos,
                   extended_private_key, text, reparsed>>

\* The start of derive(&self, path): the depth test, then the clone of self.
EnterDerive(key, p) ==
    /\ self' = key
    /\ path' = p
    /\ IF MaximumDepthCheck(key)
       THEN /\ result' = Err(MaximumChildDepthReached(key.depth))
            /\ pc' = "done"
            /\ UNCHANGED <<pos, extended_private_key>>
       ELSE /\ extended_private_key' = key
            /\ pos' = 1
            /\ pc' = "loop"
            /\ result' = None

\* new(seed, format, path): new_master(seed, format)?.derive(path)
CallNew ==
    /\ pc = "idle"
    /\ \E seed \in Seeds, format \in Formats, p \in ShortPaths \cup LongPaths :
          /\ arg' = [seed |-> seed, format |-> format]
          /\ LET master == new_master(seed, format)
             IN  IF IsErr(master)
                 THEN /\ result' = master
                      /\ pc' = "done"
                      /\ UNCHANGED <<self, path, pos, extended_private_key>>
                 ELSE EnterDerive(master.val, p)
    /\ op' = "new"
    /\ UNCHANGED <<overflow_checks, network, text, reparsed>>

\* key.derive(path) on the key a constructor returned.
CallDerive ==
    /\ pc = "done"
    /\ op \in {"new_master", "from_str"}
    /\ IsOk(result)
    /\ \E p \in ShortPaths : EnterDerive(result.val, p)
    /\ op' = "derive"
    /\ UNCHANGED <<overflow_checks, network, arg, text, reparsed>>

\* One iteration of the loop of derive.
DeriveStep ==
    /\ pc = "loop"
    /\ pos <= Len(path)
    /\ LET child == ChildKey(extended_private_key, path[pos], overflow_checks)
       IN  IF IsOk(child)
           THEN /\ extended_private_key' = child.val
                /\ pos' = pos + 1
                /\ UNCHANGED <<pc, result>>
           ELSE /\ result' = child
                /\ pc' = "done"
                /\ UNCHANGED <<pos, extended_private_key>>
    /\ UNCHANGED <<overflow_checks, network, op, arg, self, path, text, reparsed>>

\* The end of the loop: Ok(extended_private_key).
DeriveReturn ==
    /\ pc = "loop"
    /\ pos > Len(path)
    /\ result' = Ok(extended_private_key)
    /\ pc' = "done"
    /\ UNCHANGED <<overflow_checks, network, op, arg, self, path, pos,
                   extended_private_key, text, reparsed>>

\* from_str(s)
CallFromStr ==
    /\ pc = "idle"
    /\ \E s \in InputTexts :
          /\ arg' = [text |-> s]
          /\ result' = from_str(s, network)
    /\ op' = "from_str"
    /\ pc' = "done"
    /\ UNCHANGED <<overflow_checks, network, self, path, pos,
                   extended_private_key, text, reparsed>>

\* from_str(s) on a printed key of which one byte was changed.
CallFromStrCorrupted ==
    /\ pc = "idle"
    /\ \E printed \in {fmt(key, network) : key \in SerializedKeys} :
          /\ IsOk(printed)
          /\ \E at \in 0..81, delta \in ByteDeltas :
                LET s == ToBase58(CorruptByte(FromBase58(printed.val).val, at, delta))
                IN  /\ arg' = [text |-> s, original |-> printed.val, at |-> at]
                    /\ result' = from_str(s, network)
    /\ op' = "from_str"
    /\ pc' = "done"
    /\ UNCHANGED <<overflow_checks, network, self, path, pos,
                   extended_private_key, text, reparsed>>

\* The caller prints the key it got: fmt.
CallFmt ==
    /\ pc = "done"
    /\ IsOk(result)
    /\ text' = fmt(result.val, network)
    /\ pc' = "shown"
    /\ UNCHANGED <<overflow_checks, network, op, arg, self, path, pos,
                   extended_private_key, result, reparsed>>

\* The caller parses the text it printed: from_str(key.to_string()).
Reparse ==
    /\ pc = "shown"
    /\ IsOk(text)
    /\ reparsed' = from_str(text.val, network)
    /\ pc' = "reparsed"
    /\ UNCHANGED <<overflow_checks, network, op, arg, self, path, pos,
                   extended_private_key, result, text>>

\* The caller drops what the operation returned.
Return ==
    /\ pc \in {"done", "shown", "reparsed", "replaced"}
    /\ pc' = "idle"
    /\ op' = "none"
    /\ arg' = None
    /\ self' = None
    /\ path' = <<>>
    /\ pos' = 0
    /\ extended_private_key' = None
    /\ result' = None
    /\ text' = None
    /\ reparsed' = None
    /\ UNCHANGED <<overflow_checks, network>>

Next ==
    \/ CallNewMaster
    \/ CallNew
    \/ CallDerive
    \/ DeriveStep
    \/ DeriveReturn
    \/ CallFromStr
    \/ CallFromStrCorrupted
    \/ CallFmt
    \/ Reparse
    \/ Return

Spec == Init /\ [][Next]_vars

(***************************************************************************)
(* The Monero mnemonic: a second caller, on the same variables.  It makes  *)
(* a mnemonic of a seed or of a phrase, prints it with to_phrase and       *)
(* parses what was printed, as it is or with another checksum word.        *)
(***************************************************************************)
ZeroSeed == [i \in 1..SeedLength |-> 0]
MaxSeed == [i \in 1..SeedLength |-> 255]

\* The seeds: below l (zero, l - 1 and two more), l itself and above l.
MoneroSeeds ==
    {ZeroSeed,
     [ZeroSeed EXCEPT ![1] = 7, ![4] = 200, ![SeedLength] = 15],
     [i \in 1..SeedLength |-> (37 * i) % 16],
     [OrderBytes EXCEPT ![1] = 236],
     OrderBytes,
     [OrderBytes EXCEPT ![2] = 255],
     MaxSeed}

\* The words of index triples that stand for the groups xs, one triple per
\* group, followed by their checksum word.
WordsOfGroups(xs) ==
    LET data == [i \in 1..(3 * Len(xs)) |->
                    ChunkWords(xs[(i + 2) \div 3])[((i - 1) % 3) + 1].val]
    IN  Append(data, checksum_word(data).val)

\* The words of a seed as it is, without the reduction.
WordsOfSeed(seed) ==
    WordsOfGroups([k \in 1..(Len(seed) \div ChunkBytes) |->
        FromLeBytes(SubSeq(seed, ChunkBytes * (k - 1) + 1, ChunkBytes * k))])

UnknownWord == <<7, 7, 7>>
ShortWord == <<1>>
\* word with its ending changed: the same trimmed prefix, another word.
OtherEnding(word) == SubSeq(word, 1, PrefixLength) \o <<Letters, Letters>>

\* The numbers of words of the phrases cut short or made longer.
WordCounts == {1, 2, 3, 4, 7, 13, 24, 26, 27, 28}

\* The word lists the phrases given to from_phrase are made of.
InputWordLists ==
    LET good == {WordsOfSeed(seed) : seed \in MoneroSeeds}
                    \cup {WordsOfGroups([k \in 1..8 |-> WordlistLength ^ 3 - k])}
        twice == {w \o w : w \in good}
        places == {1, 2, 3, 24, 25}
    IN  good
        \cup {SubSeq(w, 1, n) : w \in twice, n \in WordCounts}
        \cup {[w EXCEPT ![i] = bad] : w \in good, i \in places,
                                      bad \in {UnknownWord, ShortWord, <<>>}}
        \cup {[w EXCEPT ![i] = OtherEnding(w[i])] : w \in good, i \in places}
        \cup {[SubSeq(w, 1, n) EXCEPT ![1] = UnknownWord] : w \in twice, n \in {2, 3, 26, 27}}

InputPhrases == {Join(w) : w \in InputWordLists} \cup {<<>>}

MoneroInit ==
    /\ overflow_checks = FALSE
    /\ network = "Mainnet"
    /\ pc = "idle"
    /\ op = "none"
    /\ arg = None
    /\ self = None
    /\ path = <<>>
    /\ pos = 0
    /\ extended_private_key = None
    /\ result = None
    /\ text = None
    /\ reparsed = None

\* MoneroMnemonic::new(rng) and from_private_spend_key: a mnemonic holding
\* the 32 bytes it was given.
MoneroNew ==
    /\ pc = "idle"
    /\ \E seed \in MoneroSeeds :
          /\ arg' = [seed |-> seed]
          /\ result' = Ok([seed |-> seed])
    /\ op' = "new"
    /\ pc' = "done"
    /\ UNCHANGED <<overflow_checks, network, self, path, pos,
                   extended_private_key, text, reparsed>>

\* from_phrase(phrase)
MoneroFromPhrase ==
    /\ pc = "idle"
    /\ \E s \in InputPhrases :
          /\ arg' = [phrase |-> s]
          /\ result' = from_phrase(s)
    /\ op' = "from_phrase"
    /\ pc' = "done"
    /\ UNCHANGED <<overflow_checks, network, self, path, pos,
                   extended_private_key, text, reparsed>>

\* verify_phrase(phrase)
MoneroVerifyPhrase ==
    /\ pc = "idle"
    /\ \E s \in InputPhrases :
          /\ arg' = [phrase |-> s]
          /\ result' = verify_phrase(s)
    /\ op' = "verify_phrase"
    /\ pc' = "done"
    /\ UNCHANGED <<overflow_checks, network, self, path, pos,
                   extended_private_key, text, reparsed>>

\* mnemonic.to_phrase() on the mnemonic that was returned.
MoneroToPhrase ==
    /\ pc = "done"
    /\ op \in {"new", "from_phrase"}
    /\ IsOk(result)
    /\ text' = to_phrase(result.val)
    /\ pc' = "shown"
    /\ UNCHANGED <<overflow_checks, network, op, arg, self, path, pos,
                   extended_private_key, result, reparsed>>

\* from_phrase on the phrase that was printed.
MoneroReparse ==
    /\ pc = "shown"
    /\ IsOk(text)
    /\ reparsed' = from_phrase(text.val)
    /\ pc' = "reparsed"
    /\ UNCHANGED <<overflow_checks, network, op, arg, self, path, pos,
                   extended_private_key, result, text>>

\* from_phrase on the phrase that was printed, its last word replaced by
\* another entry of the wordlist.
MoneroReparseReplaced ==
    /\ pc = "shown"
    /\ IsOk(text)
    /\ \E index \in 0..(WordlistLength - 1) :
          LET words == Split(text.val)
              word == WordlistGet(index).val
          IN  /\ ToTrimmed(word) # ToTrimmed(words[Len(words)])
              /\ arg' = [given |-> arg, replaced |-> word]
              /\ reparsed' = from_phrase(Join([words EXCEPT ![Len(words)] = word]))
    /\ pc' = "replaced"
    /\ UNCHANGED <<overflow_checks, network, op, self, path, pos,
                   extended_private_key, result, text>>

MoneroNext ==
    \/ MoneroNew
    \/ MoneroFromPhrase
    \/ MoneroVerifyPhrase
    \/ MoneroToPhrase
    \/ MoneroReparse
    \/ MoneroReparseReplaced
    \/ Return

SpecMonero == MoneroInit /\ [][MoneroNext]_vars

(***************************************************************************)
(* The Ethereum private key as a state machine over the same variables.    *)
(***************************************************************************)
\* 32-byte strings: 0, the secret keys, the order and the values after it,
\* the largest value of one byte, and a value of more than one byte.
InputKeyBytes ==
    {SecretKeyBytes(v) : v \in (0..(CurveOrder + 1)) \cup {255}}
        \cup {[Zeros(32) EXCEPT ![1] = 1]}

\* The string with its lowercase hex letters in uppercase.
ToUpper(s) ==
    [i \in 1..Len(s) |-> IF HexVal(s[i]) >= 10 THEN HexUpper[HexVal(s[i]) + 1] ELSE s[i]]

\* The strings given to from_wif and from_str: the encodings of the byte
\* strings in both cases, and for the encoding h of the secret key 1: h
\* without its last byte, without its last character, with a byte more, with
\* a first character that is no hex digit ("g"); and the empty string.
InputWifs ==
    LET h == HexEncode(SecretKeyBytes(1))
    IN  {HexEncode(b) : b \in InputKeyBytes}
            \cup {ToUpper(HexEncode(b)) : b \in InputKeyBytes}
            \cup {SubSeq(h, 1, 62), SubSeq(h, 1, 63), h \o <<48, 48>>,
                  [h EXCEPT ![1] = 103], <<>>}

EthereumInit ==
    /\ overflow_checks = FALSE
    /\ network = "Mainnet"
    /\ pc = "idle"
    /\ op = "none"
    /\ arg = None
    /\ self = None
    /\ path = <<>>
    /\ pos = 0
    /\ extended_private_key = None
    /\ result = None
    /\ text = None
    /\ reparsed = None

\* EthereumPrivateKey::new(network) and default(): a key of random bytes.
EthereumNew ==
    /\ pc = "idle"
    /\ \E random \in InputKeyBytes :
          /\ arg' = [random |-> random]
          /\ result' = build(random)
    /\ op' = "new"
    /\ pc' = "done"
    /\ UNCHANGED <<overflow_checks, network, self, path, pos,
                   extended_private_key, text, reparsed>>

\* EthereumPrivateKey::from_secret_key(secret_key)
EthereumFromSecretKey ==
    /\ pc = "idle"
    /\ \E secret_key \in 1..(CurveOrder - 1) :
          /\ arg' = [secret_key |-> secret_key]
          /\ result' = Ok(from_secret_key(secret_key))
    /\ op' = "from_secret_key"
    /\ pc' = "done"
    /\ UNCHANGED <<overflow_checks, network, self, path, pos,
                   extended_private_key, text, reparsed>>

\* EthereumPrivateKey::from_wif(wif)
EthereumFromWif ==
    /\ pc = "idle"
    /\ \E wif \in InputWifs :
          /\ arg' = [wif |-> wif]
          /\ result' = from_wif(wif)
    /\ op' = "from_wif"
    /\ pc' = "done"
    /\ UNCHANGED <<overflow_checks, network, self, path, pos,
                   extended_private_key, text, reparsed>>

\* EthereumPrivateKey::from_str(s)
EthereumParse ==
    /\ pc = "idle"
    /\ \E wif \in InputWifs :
          /\ arg' = [wif |-> wif]
          /\ result' = EthereumFromStr(wif)
    /\ op' = "from_str"
    /\ pc' = "done"
    /\ UNCHANGED <<overflow_checks, network, self, path, pos,
                   extended_private_key, text, reparsed>>

\* to_string() of the key an operation returned.
EthereumShow ==
    /\ pc = "done"
    /\ IsOk(result)
    /\ text' = EthereumFmt(result.val)
    /\ pc' = "shown"
    /\ UNCHANGED <<overflow_checks, network, op, arg, self, path, pos,
                   extended_private_key, result, reparsed>>

\* from_str on the text that was printed.
EthereumReparse ==
    /\ pc = "shown"
    /\ IsOk(text)
    /\ reparsed' = EthereumFromStr(text.val)
    /\ pc' = "reparsed"
    /\ UNCHANGED <<overflow_checks, network, op, arg, self, path, pos,
                   extended_private_key, result, text>>

EthereumNext ==
    \/ EthereumNew
    \/ EthereumFromSecretKey
    \/ EthereumFromWif
    \/ EthereumParse
    \/ EthereumShow
    \/ EthereumReparse
    \/ Return

SpecEthereum == EthereumInit /\ [][EthereumNext]_vars

(***************************************************************************)
(* Properties.                                                             *)
(***************************************************************************)
DeriveCalled == op \in {"derive", "new"} /\ self # None

\* C1 (as the code has it): a key whose format has version bytes on the
\* network (P2PKH, P2SH_P2WPKH) prints, and parsing the printed text gives
\* the key back, field by field; a key of any other format (Bech32) does not
\* print: to_string ends in a formatting error.
C1_RoundTrip ==
    /\ pc = "shown" =>
          IF result.val.format \in {"P2PKH", "P2SH_P2WPKH"}
          THEN IsOk(text)
          ELSE text = Err(<<"fmt::Error">>)
    /\ pc = "reparsed" => reparsed = Ok(result.val)

C1_Witness ==
    /\ pc = "reparsed"
    /\ op = "derive"
    /\ result.val.depth = 2
    /\ result.val.child_index.hardened
    /\ reparsed = Ok(result.val)

\* C1 (as stated): every key this library builds or parses, in any format,
\* prints, and parsing the printed text gives the key back.
C1_RoundTripAnyFormat ==
    /\ pc = "shown" => IsOk(text)
    /\ pc = "reparsed" => reparsed = Ok(result.val)

\* C2 (as stated): the text printed for a key that from_str accepted is the
\* text that was parsed.
C2_StringRoundTrip ==
    (pc = "shown" /\ op = "from_str") => text = Ok(arg.text)

\* derive(p) followed by derive(q) on the key it returned.
DeriveTwice(key, p, q) ==
    LET first == derive(key, p, overflow_checks)
    IN  IF IsOk(first) THEN derive(first.val, q, overflow_checks) ELSE first

\* C3 (as stated): for every way of cutting the path of a finished call in
\* two, p followed by q, deriving p and then q from the same key ends as the
\* single call did: the same key, or the same error.
C3_Associativity ==
    (pc = "done" /\ DeriveCalled) =>
        \A cut \in 0..Len(path) :
            DeriveTwice(self, SubSeq(path, 1, cut), SubSeq(path, cut + 1, Len(path)))
                = result

\* C4 (as stated): a derive that returns a key returns it at depth
\* K.depth + len(path), at most 255; a derive with K.depth + len(path) > 255
\* ends with an error value, it neither aborts nor returns a key whose depth
\* wrapped around; and the loop makes at most 255 steps.
C4_DepthNeverOverflows ==
    (pc = "done" /\ DeriveCalled) =>
        /\ result.tag # "Panic"
        /\ IsOk(result) =>
              /\ result.val.depth = self.depth + Len(path)
              /\ result.val.depth <= U8Max
        /\ self.depth + Len(path) > U8Max => IsErr(result)
        /\ pos <= U8Max + 1

\* C5: a derive on a key at depth 255 ends with MaximumChildDepthReached(255)
\* whatever the path, the empty one included, before any step of the loop;
\* a derive on a key at a smaller depth never ends with that error.
C5_MaximumChildDepth ==
    (pc \in {"loop", "done"} /\ DeriveCalled) =>
        IF self.depth = U8Max
        THEN /\ pc = "done"
             /\ result = Err(MaximumChildDepthReached(U8Max))
             /\ pos = 0
             /\ extended_private_key = None
        ELSE pc = "done" /\ IsErr(result) => result.err[1] # "MaximumChildDepthReached"

C5_Witness ==
    /\ pc = "done"
    /\ op = "derive"
    /\ self.depth = U8Max
    /\ path = <<>>
    /\ result = Err(MaximumChildDepthReached(U8Max))

\* The HMAC output of the step the loop is about to make, and its left half
\* as a number.
StepHmac == HmacSha512(extended_private_key.chain_code,
                       HmacInput(extended_private_key, path[pos]))
StepLeft == Parse256(Slice(StepHmac, 0, 32))
StepSum == (StepLeft + extended_private_key.private_key) % CurveOrder
StepPending == pc = "loop" /\ pos <= Len(path)

\* C6 (as stated): a step below the depth limit is rejected with
\* InvalidScalar exactly when I_L >= n or (I_L + k) mod n = 0; in every
\* other case, I_L = 0 included, it succeeds with the child scalar
\* (I_L + k) mod n and the chain code I[32..64].
C6_ChildScalarRule ==
    [][(StepPending /\ extended_private_key.depth < U8Max) =>
          IF StepLeft >= CurveOrder \/ StepSum = 0
          THEN pc' = "done" /\ result' = Err(InvalidScalar)
          ELSE /\ pc' = "loop"
               /\ extended_private_key'.private_key = StepSum
               /\ extended_private_key'.chain_code = Slice(StepHmac, 32, 64)]_vars

\* C7: the key a successful derive returns carries the first four bytes of
\* hash160 of the compressed public key of its parent node, the key at the
\* path without its last segment, and the last segment as its child index;
\* with the empty path it is the key derive was called on.
C7_ParentFingerprint ==
    (pc = "done" /\ DeriveCalled /\ IsOk(result)) =>
        IF path = <<>> THEN result.val = self
        ELSE LET parent == derive(self, SubSeq(path, 1, Len(path) - 1), overflow_checks)
             IN  /\ IsOk(parent)
                 /\ result.val.parent_fingerprint =
                        Slice(Hash160(PublicKeySerialize(parent.val.private_key)), 0, 4)
                 /\ result.val.child_index = path[Len(path)]

C7_Witness ==
    /\ pc = "done"
    /\ op = "new"
    /\ IsOk(result)
    /\ Len(path) = 2
    /\ result.val.child_index = Hardened(1)
    /\ result.val.parent_fingerprint # Zeros(4)

\* C8 (as stated): every key a constructor returns has depth 0 exactly when
\* its parent fingerprint is 00000000 and its child index is Normal(0).
C8_DepthZeroInvariant ==
    (pc = "done" /\ IsOk(result)) =>
        (result.val.depth = 0 <=>
            (result.val.parent_fingerprint = Zeros(4)
             /\ result.val.child_index = Normal(0)))

\* C9: new_master computes I = HMAC-SHA512("Bitcoin seed", seed) and returns
\* the key of depth 0, parent fingerprint 00000000, child index Normal(0),
\* scalar I[0..32] and chain code I[32..64], or InvalidScalar when I[0..32]
\* is zero or not below n; new(seed, format, path) ends as
\* new_master(seed, format) followed by derive(path).
C9_MasterFromSeed ==
    /\ (pc = "done" /\ op = "new_master") =>
          LET I == HmacSha512(BitcoinSeed, arg.seed)
              k == Parse256(Slice(I, 0, 32))
          IN  IF k = 0 \/ k >= CurveOrder
              THEN result = Err(InvalidScalar)
              ELSE result = Ok([format |-> arg.format,
                                depth |-> 0,
                                parent_fingerprint |-> <<0, 0, 0, 0>>,
                                child_index |-> Normal(0),
                                chain_code |-> Slice(I, 32, 64),
                                private_key |-> k])
    /\ (pc = "done" /\ op = "new") =>
          LET master == new_master(arg.seed, arg.format)
          IN  result = IF IsOk(master)
                       THEN derive(master.val, path, overflow_checks)
                       ELSE master

C9_Witness ==
    /\ pc = "done"
    /\ op = "new"
    /\ IsOk(result)
    /\ result.val.depth = 2

\* C10: a step that is rejected ends the call right there with
\* InvalidScalar: no other index is tried and no key is returned; the key
\* derive was called on is never changed, and every key on the way has its
\* format.
C10_NoRetry ==
    [][pc = "loop" =>
          /\ self' = self
          /\ (StepPending /\ IsErr(ChildScalar(extended_private_key, StepHmac))) =>
                /\ pc' = "done"
                /\ result' = Err(InvalidScalar)
                /\ extended_private_key' = extended_private_key
          /\ (StepPending /\ pc' = "loop") =>
                /\ extended_private_key'.child_index = path[pos]
                /\ extended_private_key'.format = self.format
          /\ ~StepPending => result' = Ok(extended_private_key)]_vars

C10_Witness ==
    /\ pc = "done"
    /\ op = "derive"
    /\ pos = 2
    /\ Len(path) = 2
    /\ result = Err(InvalidScalar)
    /\ extended_private_key # self

\* C11: the text of a printed key with any single one of its 82 bytes
\* changed (a payload byte, the pad byte at offset 45 included, or a
\* checksum byte) is rejected by from_str.
C11_ChecksumSensitivity ==
    (pc = "done" /\ op = "from_str" /\ "original" \in DOMAIN arg) =>
        /\ arg.text # arg.original
        /\ IsOk(from_str(arg.original, network))
        /\ IsErr(result)

C11_Witness ==
    /\ pc = "done"
    /\ op = "from_str"
    /\ "original" \in DOMAIN arg
    /\ arg.at = 45
    /\ IsErr(result)
    /\ result.err[1] = "InvalidChecksum"

\* What a text given to from_str fails first, in the order base58, length,
\* version bytes, scalar, checksum; "none" when it passes them all.
FirstFailure(s) ==
    LET decoded == FromBase58(s)
        data == decoded.val
        scalar == Parse256(Slice(data, 46, 78))
    IN  IF IsErr(decoded) THEN "base58"
        ELSE IF Len(data) # 82 THEN "length"
        ELSE IF ~\E r \in VersionTable : r[1] = network /\ r[3] = Slice(data, 0, 4)
             THEN "version"
        ELSE IF scalar = 0 \/ scalar >= CurveOrder THEN "scalar"
        ELSE IF Slice(data, 78, 82) # Slice(Checksum(Slice(data, 0, 78)), 0, 4)
             THEN "checksum"
        ELSE "none"

StaleChecksum(s) ==
    LET data == FromBase58(s).val
    IN  Slice(data, 78, 82) # Slice(Checksum(Slice(data, 0, 78)), 0, 4)

\* C19: from_str checks base58, then the length (InvalidByteLength with the
\* decoded length), then the version bytes (InvalidVersionBytes with the
\* bytes), then the scalar (InvalidScalar), then the checksum; the first
\* check that fails gives the error, whatever the later ones would say.
C19_OrderOfChecks ==
    (pc = "done" /\ op = "from_str") =>
        LET data == FromBase58(arg.text).val
            failure == FirstFailure(arg.text)
        IN  /\ failure = "base58" => result = Err(InvalidBase58)
            /\ failure = "length" => result = Err(InvalidByteLength(Len(data)))
            /\ failure = "version" =>
                  result = Err(InvalidVersionBytes(Slice(data, 0, 4)))
            /\ failure = "scalar" => result = Err(InvalidScalar)
            /\ failure = "checksum" =>
                  /\ IsErr(result)
                  /\ result.err[1] = "InvalidChecksum"
            /\ failure = "none" => IsOk(result)

C19_Witness ==
    /\ pc = "done"
    /\ op = "from_str"
    /\ FirstFailure(arg.text) = "version"
    /\ StaleChecksum(arg.text)
    /\ result = Err(InvalidVersionBytes(<<4, 136, 173, 227>>))

(***************************************************************************)
(* Properties of the Monero mnemonic (under SpecMonero).                   *)
(***************************************************************************)
\* C12: parsing the phrase to_phrase printed for a mnemonic with seed s
\* succeeds and gives the seed s reduced mod l, which is s itself when s
\* is below l.
C12_SeedRoundTrip ==
    (pc \in {"shown", "reparsed"} /\ op \in {"new", "from_phrase"}) =>
        /\ IsOk(text)
        /\ pc = "reparsed" =>
              /\ reparsed = Ok([seed |-> ReduceModOrder(result.val.seed)])
              /\ Len(reparsed.val.seed) = SeedLength
              /\ LessLE(result.val.seed, OrderBytes) => reparsed = result

C12_Witness ==
    /\ pc = "reparsed"
    /\ op = "new"
    /\ arg.seed = MaxSeed
    /\ IsOk(reparsed)
    /\ reparsed.val.seed # MaxSeed
    /\ LessLE(reparsed.val.seed, OrderBytes)

\* C13 (as stated): the phrase to_phrase prints for the mnemonic
\* from_phrase made of an accepted phrase is that phrase, word for word.
C13_PhraseRoundTrip ==
    (pc = "shown" /\ op = "from_phrase") => text = Ok(arg.phrase)

\* C14 (as stated): from_phrase returns a mnemonic or an error value for
\* every string, and a mnemonic it returns was made of 24 words and a
\* checksum word and holds SeedLength bytes.
C14_DecodeNeverAborts ==
    (pc = "done" /\ op = "from_phrase") =>
        /\ result.tag \in {"Ok", "Err"}
        /\ IsOk(result) =>
              /\ Len(Split(arg.phrase)) = 25
              /\ Len(result.val.seed) = SeedLength

\* The words of the string given to from_phrase that the wordlist does not
\* know.
UnknownWords ==
    LET words == Split(arg.phrase)
    IN  {i \in 1..Len(words) : IsErr(GetIndexTrimmed(ToTrimmed(words[i])))}

\* C15: from_phrase of a string of w words (the pieces between its single
\* spaces) returns MissingWord when w mod 3 = 2 and MissingChecksumWord when
\* w mod 3 = 0, whatever the words are.
C15_WordCountErrors ==
    (pc = "done" /\ op = "from_phrase") =>
        LET w == Len(Split(arg.phrase))
        IN  /\ w % 3 = 2 => result = Err(MissingWord)
            /\ w % 3 = 0 => result = Err(MissingChecksumWord)
            /\ (IsErr(result) /\ result.err \in {MissingWord, MissingChecksumWord})
                  => w % 3 # 1

C15_Witness ==
    /\ pc = "done"
    /\ op = "from_phrase"
    /\ Len(Split(arg.phrase)) = 26
    /\ 1 \in UnknownWords
    /\ result = Err(MissingWord)

\* C16: in a phrase printed by to_phrase, the last word replaced by a word of
\* the wordlist with another trimmed prefix makes from_phrase return
\* InvalidChecksumWord(expected, found): expected is the trimmed prefix of
\* the checksum word computed from the data words (the prefix of the word
\* that was replaced), found the trimmed prefix of the word put in its place.
C16_ChecksumWordSensitivity ==
    pc = "replaced" =>
        LET words == Split(text.val)
            data == SubSeq(words, 1, Len(words) - 1)
        IN  /\ ToTrimmed(checksum_word(data).val) = ToTrimmed(words[Len(words)])
            /\ reparsed = Err(InvalidChecksumWord(ToTrimmed(words[Len(words)]),
                                                  ToTrimmed(arg.replaced)))

C16_Witness ==
    /\ pc = "replaced"
    /\ IsErr(reparsed)
    /\ reparsed.err[1] = "InvalidChecksumWord"
    /\ reparsed.err[2] # reparsed.err[3]
    /\ \E i \in 1..24 : Split(text.val)[i] = arg.replaced

\* C17: verify_phrase(p) returns true exactly when from_phrase(p) succeeds
\* and to_phrase of the decoded mnemonic is p again, and false for every
\* other input.
C17_VerifyComparesPhrases ==
    (pc = "done" /\ op = "verify_phrase") =>
        LET mnemonic == from_phrase(arg.phrase)
        IN  result = Returned(/\ IsOk(mnemonic)
                              /\ to_phrase(mnemonic.val) = Ok(arg.phrase))

\* The little-endian group k of a seed.
Group(seed, k) == seed[ChunkBytes * (k - 1) + 1] + 256 * seed[ChunkBytes * k]

\* The phrase printed, in words, with the reduced seed it was printed from.
Printed ==
    {[words |-> Split(text.val), seed |-> ScalarFromBytesModOrder(result.val.seed)]}

\* C20: to_phrase prints 25 words; the three words of the group x of the
\* reduced seed have the indices w1 = x mod length, w2 = (x / length + w1)
\* mod length, w3 = (x / length^2 + w2) mod length; the last word is the
\* data word at the position (CRC-32 of the concatenated trimmed prefixes of
\* the 24 data words) mod 24, so it is one of the 24 data words.
C20_PhraseShape ==
    pc = "shown" =>
        /\ IsOk(text)
        /\ \A printed \in Printed :
              /\ Len(printed.words) = 25
              /\ \A k \in 1..8 :
                    LET n == WordlistLength
                        x == Group(printed.seed, k)
                        w1 == x % n
                        w2 == ((x \div n) + w1) % n
                        w3 == ((x \div (n * n)) + w2) % n
                    IN  /\ printed.words[3 * k - 2] = WordlistGet(w1).val
                        /\ printed.words[3 * k - 1] = WordlistGet(w2).val
                        /\ printed.words[3 * k] = WordlistGet(w3).val
              /\ \E at \in {Crc32(Concat([i \in 1..24 |-> ToTrimmed(printed.words[i])])) % 24} :
                    printed.words[25] = printed.words[at + 1]
              /\ \E i \in 1..24 : printed.words[25] = printed.words[i]

C20_Witness ==
    /\ pc = "shown"
    /\ op = "new"
    /\ IsOk(text)
    /\ \E printed \in Printed :
          /\ Len(printed.words) = 25
          /\ \E k \in 1..8 : Group(printed.seed, k) >= WordlistLength * WordlistLength
          /\ printed.words[25] # printed.words[1]

\* C18: from_wif and from_str return Ok for the hex encoding of a secret key
\* (32 bytes, not 0, below the order) and Err for every other string; the
\* call never aborts.
C18_ErrorsAreValues ==
    (pc = "done" /\ op \in {"from_wif", "from_str"}) =>
        LET bytes == HexDecode(arg.wif)
            valid == /\ IsOk(bytes)
                     /\ \E k \in 1..(CurveOrder - 1) : bytes.val = SecretKeyBytes(k)
        IN  IF valid THEN IsOk(result) ELSE IsErr(result)

\* The integer x that from_phrase computes of the data words 3k - 2, 3k - 1
\* and 3k of a phrase, before it is cast to the width of a group.
ChunkInteger(words, k) ==
    LET n == WordlistLength
        w1 == GetIndexTrimmed(ToTrimmed(words[3 * k - 2])).val
        w2 == GetIndexTrimmed(ToTrimmed(words[3 * k - 1])).val
        w3 == GetIndexTrimmed(ToTrimmed(words[3 * k])).val
    IN  w1 + n * (((n - w1) + w2) % n) + n * n * (((n - w2) + w3) % n)

\* The phrase given to from_phrase, in words, when it has 25 words that the
\* wordlist knows.
KnownPhrase ==
    {words \in {Split(arg.phrase)} :
        /\ Len(words) = 25
        /\ \A i \in 1..24 : IsOk(GetIndexTrimmed(ToTrimmed(words[i])))}

\* C21: in a phrase that from_phrase accepts the integer x of every chunk is
\* below the modulus of a group and the bytes of the group in the seed are
\* x itself; a phrase with a chunk whose x is not below the modulus returns
\* InvalidDecoding.
C21_DecodeLossless ==
    (pc = "done" /\ op = "from_phrase") =>
        \A words \in KnownPhrase :
            /\ IsOk(result) =>
                  \A k \in 1..8 :
                      /\ ChunkInteger(words, k) < ChunkModulus
                      /\ Group(result.val.seed, k) = ChunkInteger(words, k)
            /\ (\E k \in 1..8 : ChunkInteger(words, k) >= ChunkModulus) =>
                  result = Err(InvalidDecoding)

\* C22: the key that new, from_secret_key, from_wif or from_str returned has
\* as wif the 64 lowercase hex characters of its secret key; it prints as
\* that string, and from_str of the printed string is the key again.
C22_WifIsLowercaseHex ==
    (/\ pc \in {"done", "shown", "reparsed"}
     /\ op \in {"new", "from_secret_key", "from_wif", "from_str"}
     /\ IsOk(result)) =>
        \A encoded \in {HexEncode(SecretKeyBytes(result.val.secret_key))} :
            /\ Len(encoded) = 64
            /\ result.val.wif = encoded
            /\ pc \in {"shown", "reparsed"} => text = Ok(encoded)
            /\ pc = "reparsed" => reparsed = Ok(result.val)

=============================================================================
